---- MODULE Spec2Model ----
(***************************************************************************)
(* Model of the HEMIS MCP server (src/server.py): the token cache          *)
(* (memory slot + token_cache.json), login_to_hemis, and the tool          *)
(* handlers that authenticate through it and issue one backend GET.        *)
(*                                                                         *)
(* Time is counted in whole days.  The coroutines are cut at their real    *)
(* suspension points (the awaited HTTP POST and GET); everything between   *)
(* two suspension points is one atomic action, as under asyncio.           *)
(*                                                                         *)
(* The chat client (src/client_openai.py), chat_loop and process_query,    *)
(* is modelled beside it with its own variables and its own                *)
(* specification (ClientSpec); the replies of the LLM and of the MCP       *)
(* session are inputs there.                                               *)
(*                                                                         *)
(* The report of get_student_schedule (sorting, grouping by day) is        *)
(* modelled for itself (ScheduleSpec): the payload of the backend GET is   *)
(* drawn from bounded lists of lessons.                                    *)
(***************************************************************************)
EXTENDS Integers, Sequences, FiniteSets, TLC

\* ------------------------------------------------------------------ bounds

\* The clock stops ticking at MaxTime (days since the model's epoch).
MaxTime == 7

\* ------------------------------------------------------------------ constants

\* timedelta(days=7) in save_token.
TokenLifetimeDays == 7

\* Python's None for string-valued slots.
None == "None"

\* A missing ISO-8601 string (None or ""): both are falsy in Python.
NoIso == <<>>

\* Opaque bearer tokens the backend may issue.
Tokens == {"tokA", "tokB"}

\* Concurrent tool invocations the MCP server may have in flight.
Callers == {1, 2}

\* A Python str is written as the sequence of its pieces: the literal is their
\* concatenation, and the first piece runs up to the verb.
\* The literal every protected tool returns when login_to_hemis gives no token.
AuthError == << "Unable to authenticate", " with HEMIS. Please check your credentials." >>

\* The @mcp.tool() functions that start with `token = await login_to_hemis()`.
ProtectedTools ==
    { "get_student_profile", "get_student_gpa_list", "get_student_semesters",
      "get_student_subjects", "get_student_subjects_list", "get_student_attendance",
      "get_student_exams", "get_student_performance", "get_student_contract",
      "get_student_contract_list", "get_student_decrees", "get_student_documents",
      "get_all_student_documents", "get_student_references",
      "generate_student_reference", "get_student_resources", "get_student_schedule",
      "get_subject_details", "get_student_task_list" }

\* The @mcp.tool() functions that call make_get_request(url) without a token.
PublicTools ==
    { "get_employee_statistics", "get_university_structure", "get_student_statistics",
      "get_universities", "get_university_profile" }

ToolNames == ProtectedTools \cup PublicTools

\* The tools the model invokes: two protected handlers (one of them the tool whose
\* failure string is worded differently) and one public handler.  The other handlers
\* repeat these shapes with other endpoints and strings.
Tools == { "get_student_profile", "generate_student_reference", "get_employee_statistics" }

\* `endpoint = "..."` of each tool.
Endpoint(tool) ==
    CASE tool = "get_student_profile" -> "account/me"
      [] tool = "get_student_gpa_list" -> "education/gpa-list"
      [] tool = "get_student_semesters" -> "education/semesters"
      [] tool = "get_student_subjects" -> "education/subject-list"
      [] tool = "get_student_subjects_list" -> "education/subjects"
      [] tool = "get_student_attendance" -> "education/attendance"
      [] tool = "get_student_exams" -> "education/exam-table"
      [] tool = "get_student_performance" -> "education/performance"
      [] tool = "get_student_contract" -> "student/contract"
      [] tool = "get_student_contract_list" -> "student/contract-list"
      [] tool = "get_student_decrees" -> "student/decree"
      [] tool = "get_student_documents" -> "student/document"
      [] tool = "get_all_student_documents" -> "student/document-all"
      [] tool = "get_student_references" -> "student/reference"
      [] tool = "generate_student_reference" -> "student/reference-generate"
      [] tool = "get_student_resources" -> "education/resources"
      [] tool = "get_student_schedule" -> "education/schedule"
      [] tool = "get_subject_details" -> "education/subject"
      [] tool = "get_student_task_list" -> "education/task-list"
      [] tool = "get_employee_statistics" -> "public/stat-employee"
      [] tool = "get_university_structure" -> "public/stat-structure"
      [] tool = "get_student_statistics" -> "public/stat-student"
      [] tool = "get_universities" -> "public/universities"
      [] tool = "get_university_profile" -> "public/university-profile"

\* The literal each tool returns under `if not data or not data.get("success")`.
FetchFailedMsg(tool) ==
    CASE tool = "get_student_profile" ->
            << "Unable to fetch", " student profile information." >>
      [] tool = "get_student_gpa_list" ->
            << "Unable to fetch", " GPA information." >>
      [] tool = "get_student_semesters" ->
            << "Unable to fetch", " semester information." >>
      [] tool = "get_student_subjects" ->
            << "Unable to fetch", " subject information for the specified semester." >>
      [] tool = "get_student_subjects_list" ->
            << "Unable to fetch", " subjects list for the specified semester." >>
      [] tool = "get_student_attendance" ->
            << "Unable to fetch", " attendance information for the specified subject and semester." >>
      [] tool = "get_student_exams" ->
            << "Unable to fetch", " exam schedule for the specified semester." >>
      [] tool = "get_student_performance" ->
            << "Unable to fetch", " performance information for the specified subject and semester." >>
      [] tool = "get_student_contract" ->
            << "Unable to fetch", " student contract information." >>
      [] tool = "get_student_contract_list" ->
            << "Unable to fetch", " student contract list." >>
      [] tool = "get_student_decrees" ->
            << "Unable to fetch", " student decree information." >>
      [] tool = "get_student_documents" ->
            << "Unable to fetch", " student document information." >>
      [] tool = "get_all_student_documents" ->
            << "Unable to fetch", " student documents information." >>
      [] tool = "get_student_references" ->
            << "Unable to fetch", " student references." >>
      [] tool = "generate_student_reference" ->
            << "Unable to generate", " student reference. The university might not allow automatic reference generation." >>
      [] tool = "get_student_resources" ->
            << "Unable to fetch", " resources for the specified subject and semester." >>
      [] tool = "get_student_schedule" ->
            << "Unable to fetch", " schedule for the specified semester and week." >>
      [] tool = "get_subject_details" ->
            << "Unable to fetch", " subject details for the specified subject and semester." >>
      [] tool = "get_student_task_list" ->
            << "Unable to fetch", " tasks list for the specified semester." >>
      [] tool = "get_employee_statistics" ->
            << "Unable to fetch", " employee statistics." >>
      [] tool = "get_university_structure" ->
            << "Unable to fetch", " university structure statistics." >>
      [] tool = "get_student_statistics" ->
            << "Unable to fetch", " student statistics." >>
      [] tool = "get_universities" ->
            << "Unable to fetch", " universities list." >>
      [] tool = "get_university_profile" ->
            << "Unable to fetch", " university profile information." >>

\* ------------------------------------------------------------------ state

VARIABLES
    now,              \* datetime.now(), in days
    STUDENT_LOGIN,    \* os.getenv("HEMIS_LOGIN"): None when not configured
    STUDENT_PASSWORD, \* os.getenv("HEMIS_PASSWORD"): None when not configured
    _cached_token,    \* module global: the in-memory token, or None
    _token_expiry,    \* module global: its expiry as an ISO string, or NoIso
    tokenFile,        \* the content of TOKEN_CACHE_FILE
    call              \* the tool invocations in flight, one per caller

vars == <<now, STUDENT_LOGIN, STUDENT_PASSWORD, _cached_token, _token_expiry, tokenFile, call>>

cacheVars == <<_cached_token, _token_expiry, tokenFile>>

\* The state of the chat client (src/client_openai.py): where chat_loop and
\* process_query stand, process_query's locals, the requests sent to the LLM and to
\* the MCP session during the current query, and what chat_loop printed since it last
\* read a line.
VARIABLES cpc, query, messages, available_tools, tool_calls, tool_index, tool_results,
          final_text, llmLog, mcpLog, printed

clientVars == <<cpc, query, messages, available_tools, tool_calls, tool_index,
                tool_results, final_text, llmLog, mcpLog, printed>>

\* process_query's locals.
queryVars == <<messages, available_tools, tool_calls, tool_index, tool_results,
               final_text>>

\* get_student_schedule after its GET: `payload` is the list under "data" as the backend
\* sent it, `schedule` the same list once sorted, `report` the lines of `result`.
VARIABLES payload, schedule, report

scheduleVars == <<payload, schedule, report>>

\* ------------------------------------------------------------------ conversions

Digits == 0..9

\* IsoFormat keeping only the last digit of the field.
IsoFormat_LastDigit(t) == << 0, 0, t % 10 >>

\* datetime.isoformat(): the day number as a fixed-width decimal field.
IsoFormat(t) == << (t \div 100) % 10, (t \div 10) % 10, t % 10 >>

\* Whether datetime.fromisoformat(s) parses (it raises ValueError otherwise).
IsIso(s) == Len(s) = 3 /\ \A i \in 1..3 : s[i] \in Digits

\* datetime.fromisoformat(s) of a string that parses.
FromIsoFormat(s) == s[1] * 100 + s[2] * 10 + s[3]

\* Python truthiness of a token slot (None and "" are falsy).
Truthy(tok) == tok # None /\ tok # ""

\* ------------------------------------------------------------------ durable record

\* No file at TOKEN_CACHE_FILE.
FileAbsent == [state |-> "absent", token |-> None, expiry |-> NoIso]

\* A file json.load cannot decode (a write that failed after open(..., 'w') truncated it).
FileMalformed == [state |-> "malformed", token |-> None, expiry |-> NoIso]

\* json.dump({'token': token, 'expiry': _token_expiry}, f): one record, overwritten.
FileRecord(token, expiry) == [state |-> "record", token |-> token, expiry |-> expiry]

\* Outcomes of the read in get_cached_token: it works, or open/read raises.
ReadOutcomes == {"ok", "ioerror"}

\* Outcomes of the write in save_token: it works, open raises (file untouched), or
\* json.dump raises after open truncated the file.
WriteOutcomes == {"ok", "open_failed", "dump_failed"}

\* ------------------------------------------------------------------ HTTP

\* What an awaited request can end in: an exception (network error, timeout), a
\* non-2xx status (raise_for_status), a body response.json() cannot decode, or JSON.
HttpKinds == {"exception", "status_error", "bad_json", "json"}

\* JSON bodies of auth/login: `success` true, false or absent; `data.token` a token
\* or `data` absent.
LoginBodies == [success : {"true", "false", "absent"}, token : Tokens \cup {None}]

\* JSON bodies of a GET endpoint: `success` true, false or absent; `data` absent,
\* empty ({} or []), or a full payload.
GetBodies == [success : {"true", "false", "absent"}, data : {"absent", "empty", "full"}]

\* The value make_post_request / make_get_request returns: None, or the decoded body.
NoBody == [isNone |-> TRUE, success |-> "absent", token |-> None, data |-> "absent"]

\* The values make_post_request can return.
LoginResponses ==
    { NoBody } \cup
    { [isNone |-> FALSE, success |-> b.success, token |-> b.token,
       data |-> IF b.token = None THEN "absent" ELSE "full"] : b \in LoginBodies }

\* The values make_get_request can return.
GetResponses ==
    { NoBody } \cup
    { [isNone |-> FALSE, success |-> b.success, token |-> None, data |-> b.data] :
        b \in GetBodies }

\* How the awaited POST can end: a failure kind (no usable body), or JSON.
LoginOutcomes ==
    { [kind |-> k, body |-> NoBody] : k \in HttpKinds \ {"json"} } \cup
    { [kind |-> "json", body |-> b] : b \in LoginResponses \ {NoBody} }

\* How the awaited GET can end.
GetOutcomes ==
    { [kind |-> k, body |-> NoBody] : k \in HttpKinds \ {"json"} } \cup
    { [kind |-> "json", body |-> b] : b \in GetResponses \ {NoBody} }

\* make_post_request: any exception (raise_for_status and json() included) gives None.
make_post_request(kind, body) == IF kind = "json" THEN body ELSE NoBody

\* make_get_request: any exception (raise_for_status and json() included) gives None.
make_get_request(kind, body) == IF kind = "json" THEN body ELSE NoBody

\* `not data`: None, or a dict with no keys.
Falsy(resp) == resp.isNone \/ (resp.success = "absent" /\ resp.data = "absent")

\* NotSuccess without the test of the success indicator.
NotSuccess_OnlyNone(resp) == Falsy(resp)

\* `not data or not data.get("success")`.
NotSuccess(resp) == Falsy(resp) \/ resp.success # "true"

\* The Authorization header make_get_request sends: `if token:` adds Bearer <token>.
NoBearer == "no Authorization header"

\* Headers never adding the Authorization header.
Headers_NoToken(token) == NoBearer

Headers(token) == IF Truthy(token) THEN token ELSE NoBearer

NoRequest == [endpoint |-> "", bearer |-> NoBearer]

GetRequest(tool, token) == [endpoint |-> Endpoint(tool), bearer |-> Headers(token)]


\* ------------------------------------------------------------------ token cache

\* MemoryTokenValid with the expiry test off by one (<= for <).
MemoryTokenValid_Inclusive(token, expiry, t) ==
    /\ Truthy(token)
    /\ expiry # NoIso
    /\ t <= FromIsoFormat(expiry)

\* The memory branch of get_cached_token at time t: both globals set and t < expiry.
\* (_token_expiry only ever holds a string that isoformat() produced or that parsed.)
MemoryTokenValid(token, expiry, t) ==
    /\ Truthy(token)
    /\ expiry # NoIso
    /\ t < FromIsoFormat(expiry)

\* FileTokenValid without the expiry test: any stored record is adopted.
FileTokenValid_NoExpiry(file, t, rd) ==
    /\ rd = "ok"
    /\ file.state = "record"
    /\ Truthy(file.token)
    /\ file.expiry # NoIso
    /\ IsIso(file.expiry)

\* The file branch of get_cached_token at time t: the file exists, is read and decoded,
\* holds a token and an expiry that parses, and t < expiry.  Any exception on the way
\* (open, read, json.load, fromisoformat) is swallowed and the branch is not taken.
FileTokenValid(file, t, rd) ==
    /\ rd = "ok"
    /\ file.state = "record"
    /\ Truthy(file.token)
    /\ file.expiry # NoIso
    /\ IsIso(file.expiry)
    /\ t < FromIsoFormat(file.expiry)

\* CachedTokenLookup looking at the file before the memory slot.
CachedTokenLookup_FileFirst(token, expiry, file, t, rd) ==
    IF FileTokenValid(file, t, rd)
    THEN [ret |-> file.token, token |-> file.token, expiry |-> file.expiry]
    ELSE IF MemoryTokenValid(token, expiry, t)
    THEN [ret |-> token, token |-> token, expiry |-> expiry]
    ELSE [ret |-> None, token |-> token, expiry |-> expiry]

\* CachedTokenLookup adopting the stored token without its expiry.
CachedTokenLookup_KeepsExpiry(token, expiry, file, t, rd) ==
    IF MemoryTokenValid(token, expiry, t)
    THEN [ret |-> token, token |-> token, expiry |-> expiry]
    ELSE IF FileTokenValid(file, t, rd)
    THEN [ret |-> file.token, token |-> file.token, expiry |-> expiry]
    ELSE [ret |-> None, token |-> token, expiry |-> expiry]

\* CachedTokenLookup giving an adopted token a new lifetime from the time of the read.
CachedTokenLookup_Renews(token, expiry, file, t, rd) ==
    IF MemoryTokenValid(token, expiry, t)
    THEN [ret |-> token, token |-> token, expiry |-> expiry]
    ELSE IF FileTokenValid(file, t, rd)
    THEN [ret |-> file.token, token |-> file.token,
          expiry |-> IsoFormat(t + TokenLifetimeDays)]
    ELSE [ret |-> None, token |-> token, expiry |-> expiry]

\* The body of get_cached_token on given globals, file and clock: the value returned
\* and the two globals after the call.
CachedTokenLookup(token, expiry, file, t, rd) ==
    IF MemoryTokenValid(token, expiry, t)
    THEN [ret |-> token, token |-> token, expiry |-> expiry]
    ELSE IF FileTokenValid(file, t, rd)
    THEN [ret |-> file.token, token |-> file.token, expiry |-> file.expiry]
    ELSE [ret |-> None, token |-> token, expiry |-> expiry]

\* get_cached_token() on the process's state.
get_cached_token(rd) == CachedTokenLookup(_cached_token, _token_expiry, tokenFile, now, rd)

\* NewExpiry without the seven days added.
NewExpiry_NoLifetime == IsoFormat(now)

\* The expiry save_token computes: datetime.now() + timedelta(days=7), as ISO text.
NewExpiry == IsoFormat(now + TokenLifetimeDays)

\* The file after save_token's write, by the outcome of the write.
WrittenFile(token, wr) ==
    CASE wr = "ok" -> FileRecord(token, NewExpiry)
      [] wr = "open_failed" -> tokenFile
      [] wr = "dump_failed" -> FileMalformed

\* save_token setting the globals only once the file is written.
save_token_AfterWrite(token, wr) ==
    /\ _cached_token' = IF wr = "ok" THEN token ELSE _cached_token
    /\ _token_expiry' = IF wr = "ok" THEN NewExpiry ELSE _token_expiry
    /\ tokenFile' = WrittenFile(token, wr)

\* save_token keeping an expiry that is already set: the new token is stored beside the
\* expiry of an earlier login.
save_token_KeepsExpiry(token, wr) ==
    /\ _cached_token' = token
    /\ _token_expiry' = IF _token_expiry = NoIso THEN NewExpiry ELSE _token_expiry
    /\ tokenFile' = WrittenFile(token, wr)

\* save_token(token): sets both globals, then writes the file (failure swallowed).
save_token(token, wr) ==
    /\ _cached_token' = token
    /\ _token_expiry' = NewExpiry
    /\ tokenFile' = WrittenFile(token, wr)

\* CredentialsMissing with `and` for `or`.
CredentialsMissing_Both == ~Truthy(STUDENT_LOGIN) /\ ~Truthy(STUDENT_PASSWORD)

\* `if not STUDENT_LOGIN or not STUDENT_PASSWORD` in login_to_hemis.
CredentialsMissing == ~Truthy(STUDENT_LOGIN) \/ ~Truthy(STUDENT_PASSWORD)

\* `response["data"]["token"]` raises KeyError when the body has no data.token.
LoginRaises(resp) == ~NotSuccess(resp) /\ resp.data = "absent"

\* ------------------------------------------------------------------ tool results

\* No result yet.
Pending == [kind |-> "pending", text |-> << >>]

\* A tool returning a str to FastMCP.
Text(s) == [kind |-> "text", text |-> s]

\* The Markdown report a tool joins from its payload ("\n".join(result)).
Report == << "report" >>

\* An exception leaving the tool function.
Raised(exc) == [kind |-> "raised", text |-> << exc >>]

\* What each invoked tool does with `data["data"]` once the success check passed:
\* every tool indexes data["data"] (KeyError when absent); on an empty payload
\* get_student_profile and get_employee_statistics index required keys (KeyError),
\* generate_student_reference prints a report with defaults.
Format(tool, data) ==
    CASE data = "absent" -> Raised("KeyError")
      [] data = "empty" /\ tool \in {"get_student_profile", "get_employee_statistics"} ->
            Raised("KeyError")
      [] OTHER -> Text(Report)

\* The part of a tool after `data = await make_get_request(...)`.
ToolResult(tool, resp) ==
    IF NotSuccess(resp) THEN Text(FetchFailedMsg(tool)) ELSE Format(tool, resp.data)

\* ------------------------------------------------------------------ invocations

\* No tool running for this caller.
Idle == [pc |-> "idle", tool |-> "", request |-> NoRequest, result |-> Pending]

\* A tool suspended in `await make_get_request(url, token)`; `request` is the GET in
\* flight.
AwaitingGet(tool, token) ==
    [pc |-> "get", tool |-> tool, request |-> GetRequest(tool, token), result |-> Pending]

\* A tool suspended in `await make_post_request(url, login_data)` inside login_to_hemis.
AwaitingPost(tool) ==
    [pc |-> "post", tool |-> tool, request |-> NoRequest, result |-> Pending]

\* A tool that returned its string, or raised.
Done(tool, result) ==
    [pc |-> "done", tool |-> tool, request |-> NoRequest, result |-> result]

\* AfterLogin without the `if not token` return.
AfterLogin_NoCheck(tool, token) == AwaitingGet(tool, token)

\* `if not token: return "Unable to authenticate ..."`, else the GET is issued.
AfterLogin(tool, token) ==
    IF ~Truthy(token) THEN Done(tool, Text(AuthError)) ELSE AwaitingGet(tool, token)

\* InvokeProtected behind a lock around login_to_hemis: no caller enters it while
\* another caller is suspended in the login POST.
InvokeProtected_Exclusive(c, tool, rd) ==
    /\ tool \in ProtectedTools
    /\ call[c].pc \in {"idle", "done"}
    /\ \A d \in Callers : call[d].pc # "post"
    /\ LET g == get_cached_token(rd) IN
        /\ _cached_token' = g.token
        /\ _token_expiry' = g.expiry
        /\ call' = [call EXCEPT ![c] =
              IF Truthy(g.ret) THEN AfterLogin(tool, g.ret)
              ELSE IF CredentialsMissing THEN AfterLogin(tool, None)
              ELSE AwaitingPost(tool)]
    /\ UNCHANGED <<now, STUDENT_LOGIN, STUDENT_PASSWORD, tokenFile>>
    /\ UNCHANGED <<clientVars, scheduleVars>>

\* A protected tool up to its first suspension: login_to_hemis runs get_cached_token,
\* returns a cached token, or returns None without credentials, or posts the login.
InvokeProtected(c, tool, rd) ==
    /\ tool \in ProtectedTools
    /\ call[c].pc \in {"idle", "done"}
    /\ LET g == get_cached_token(rd) IN
        /\ _cached_token' = g.token
        /\ _token_expiry' = g.expiry
        /\ call' = [call EXCEPT ![c] =
              IF Truthy(g.ret) THEN AfterLogin(tool, g.ret)
              ELSE IF CredentialsMissing THEN AfterLogin(tool, None)
              ELSE AwaitingPost(tool)]
    /\ UNCHANGED <<now, STUDENT_LOGIN, STUDENT_PASSWORD, tokenFile>>
    /\ UNCHANGED <<clientVars, scheduleVars>>

\* InvokePublic passing the cached token to make_get_request.
InvokePublic_WithCachedToken(c, tool) ==
    /\ tool \in PublicTools
    /\ call[c].pc \in {"idle", "done"}
    /\ call' = [call EXCEPT ![c] = AwaitingGet(tool, _cached_token)]
    /\ UNCHANGED <<now, STUDENT_LOGIN, STUDENT_PASSWORD, cacheVars>>
    /\ UNCHANGED <<clientVars, scheduleVars>>

\* A public tool up to its suspension: make_get_request(url), no token.
InvokePublic(c, tool) ==
    /\ tool \in PublicTools
    /\ call[c].pc \in {"idle", "done"}
    /\ call' = [call EXCEPT ![c] = AwaitingGet(tool, None)]
    /\ UNCHANGED <<now, STUDENT_LOGIN, STUDENT_PASSWORD, cacheVars>>
    /\ UNCHANGED <<clientVars, scheduleVars>>

\* LoginResponse clearing the memory slot when the login failed.
LoginResponse_ClearsOnFailure(c, http, wr) ==
    /\ call[c].pc = "post"
    /\ LET resp == make_post_request(http.kind, http.body)
           tool == call[c].tool IN
        IF NotSuccess(resp)
        THEN /\ call' = [call EXCEPT ![c] = AfterLogin(tool, None)]
             /\ _cached_token' = None
             /\ _token_expiry' = NoIso
             /\ UNCHANGED tokenFile
        ELSE IF LoginRaises(resp)
        THEN /\ call' = [call EXCEPT ![c] = Done(tool, Raised("KeyError"))]
             /\ UNCHANGED cacheVars
        ELSE /\ save_token(resp.token, wr)
             /\ call' = [call EXCEPT ![c] = AfterLogin(tool, resp.token)]
    /\ UNCHANGED <<now, STUDENT_LOGIN, STUDENT_PASSWORD>>
    /\ UNCHANGED <<clientVars, scheduleVars>>

\* The login POST completes: login_to_hemis returns None, raises, or saves and returns
\* the token; the tool goes on to its auth check and its GET.
LoginResponse(c, http, wr) ==
    /\ call[c].pc = "post"
    /\ LET resp == make_post_request(http.kind, http.body)
           tool == call[c].tool IN
        IF NotSuccess(resp)
        THEN /\ call' = [call EXCEPT ![c] = AfterLogin(tool, None)]
             /\ UNCHANGED cacheVars
        ELSE IF LoginRaises(resp)
        THEN /\ call' = [call EXCEPT ![c] = Done(tool, Raised("KeyError"))]
             /\ UNCHANGED cacheVars
        ELSE /\ save_token(resp.token, wr)
             /\ call' = [call EXCEPT ![c] = AfterLogin(tool, resp.token)]
    /\ UNCHANGED <<now, STUDENT_LOGIN, STUDENT_PASSWORD>>
    /\ UNCHANGED <<clientVars, scheduleVars>>

\* GetResponse dropping the cached token when the request failed.
GetResponse_Invalidates(c, http) ==
    /\ call[c].pc = "get"
    /\ LET resp == make_get_request(http.kind, http.body) IN
        /\ call' = [call EXCEPT ![c] = Done(call[c].tool, ToolResult(call[c].tool, resp))]
        /\ IF NotSuccess(resp)
           THEN /\ _cached_token' = None
                /\ _token_expiry' = NoIso
                /\ tokenFile' = FileAbsent
           ELSE UNCHANGED cacheVars
    /\ UNCHANGED <<now, STUDENT_LOGIN, STUDENT_PASSWORD>>
    /\ UNCHANGED <<clientVars, scheduleVars>>

\* The backend GET completes: the tool returns its report or its failure string, or
\* raises while formatting.
GetResponse(c, http) ==
    /\ call[c].pc = "get"
    /\ LET resp == make_get_request(http.kind, http.body) IN
        call' = [call EXCEPT ![c] = Done(call[c].tool, ToolResult(call[c].tool, resp))]
    /\ UNCHANGED <<now, STUDENT_LOGIN, STUDENT_PASSWORD, cacheVars>>
    /\ UNCHANGED <<clientVars, scheduleVars>>

\* A day passes.
Tick ==
    /\ now < MaxTime
    /\ now' = now + 1
    /\ UNCHANGED <<STUDENT_LOGIN, STUDENT_PASSWORD, cacheVars, call>>
    /\ UNCHANGED <<clientVars, scheduleVars>>

\* The server process is restarted: module initialisation runs again (load_dotenv and
\* os.getenv read the environment, the globals are None) while token_cache.json stays
\* on disk.  Invocations in flight die with the old process.
Restart(env) ==
    /\ STUDENT_LOGIN' = env.login
    /\ STUDENT_PASSWORD' = env.password
    /\ _cached_token' = None
    /\ _token_expiry' = NoIso
    /\ call' = [c \in Callers |-> Idle]
    /\ UNCHANGED <<now, tokenFile>>
    /\ UNCHANGED <<clientVars, scheduleVars>>

\* Values of HEMIS_LOGIN / HEMIS_PASSWORD the environment may hold: both, only the
\* login, or neither.
Environments ==
    { [login |-> "student", password |-> "secret"],
      [login |-> "student", password |-> None],
      [login |-> None, password |-> None] }

\* ------------------------------------------------------------------ client_openai.py
\*
\* MCPClient.chat_loop and MCPClient.process_query.  The coroutine is cut where it
\* waits on the outside world: input(), session.list_tools(), the two
\* chat.completions.create calls and each session.call_tool.

\* The most tool invocations one completion requests.
MaxToolCalls == 2

\* Lines the user may type, as sequences of characters.
Inputs ==
    { << "q", "u", "i", "t" >>,
      << " ", "Q", "u", "I", "T", "\t" >>,
      << "q", "u", "i", "t", " ", "n", "o", "w" >>,
      << " ", "H", "i" >> }

\* str.isspace for the characters used here.
IsSpace(ch) == ch \in {" ", "\t", "\n"}

RECURSIVE LStrip(_)
LStrip(s) == IF s # << >> /\ IsSpace(Head(s)) THEN LStrip(Tail(s)) ELSE s

RECURSIVE RStrip(_)
RStrip(s) ==
    IF s # << >> /\ IsSpace(s[Len(s)]) THEN RStrip(SubSeq(s, 1, Len(s) - 1)) ELSE s

\* Strip removing nothing.
Strip_Nothing(s) == s

\* str.strip().
Strip(s) == RStrip(LStrip(s))

LowerChar(ch) ==
    CASE ch = "Q" -> "q" [] ch = "U" -> "u" [] ch = "I" -> "i" [] ch = "T" -> "t"
      [] ch = "H" -> "h" [] OTHER -> ch

\* str.lower().
Lower(s) == [i \in 1 .. Len(s) |-> LowerChar(s[i])]

\* A text of one piece, the empty string, and None as a message content.
Str(piece) == << piece >>
EmptyStr == << >>
NoContent == << None >>

\* OrEmpty without the `or ""`.
OrEmpty_Missing(content) == content

\* `content or ""`.
OrEmpty(content) == IF content = NoContent \/ content = EmptyStr THEN EmptyStr ELSE content

\* Tool names the LLM may request, and the argument strings it may produce.
RequestedNames == {"get_student_profile", "get_universities"}

ArgumentTexts == {"{}", "{\"week\": "}

\* json.loads on an argument string: the decoded value, or JSONDecodeError.
JsonLoads(text) ==
    IF text = "{}" THEN [ok |-> TRUE, value |-> "{}"] ELSE [ok |-> FALSE, value |-> None]

\* One entry of assistant_message.tool_calls: correlation id and function call.
ToolCall == [id : 1 .. MaxToolCalls, name : RequestedNames, arguments : ArgumentTexts]

\* The tool_calls a completion can carry: none, or up to MaxToolCalls with distinct ids.
ToolCallLists ==
    { l \in UNION { [1 .. n -> ToolCall] : n \in 0 .. MaxToolCalls } :
        \A i, j \in 1 .. Len(l) : i # j => l[i].id # l[j].id }

\* response.choices[0].message: content is Optional[str], tool_calls a list or None.
Completions == [content : {NoContent, Str("answer A"), Str("answer B")},
                tool_calls : ToolCallLists]

\* How a chat.completions.create call ends: it raises, or returns a message.
NoMessage == [content |-> NoContent, tool_calls |-> << >>]

LlmOutcomes ==
    { [raised |-> TRUE, message |-> NoMessage] } \cup
    { [raised |-> FALSE, message |-> m] : m \in Completions }

\* The second completion is requested without tools; what it returns is typed like
\* the first (its tool_calls, if any, are a list of at most one call here).
SecondOutcomes == { out \in LlmOutcomes : Len(out.message.tool_calls) <= 1 }

\* How session.call_tool ends: it raises, or returns a CallToolResult whose content
\* is the tool's text, or (isError) the text of the exception the tool raised.
CallToolResult(name, isError) ==
    [isError |-> isError,
     content |-> << name, IF isError THEN "Error executing tool" ELSE "output" >>]

McpOutcomes == {"raise", "error_result", "result"}

\* How session.list_tools ends: it raises, or returns the server's tools.
ListOutcomes == {"raise", "tools"}

\* The messages of the conversation.
UserMessage(text) ==
    [role |-> "user", content |-> text, tool_calls |-> << >>, tool_call_id |-> 0]

\* AssistantMessage recording the text only, not the invocations.
AssistantMessage_NoCalls(message) ==
    [role |-> "assistant", content |-> message.content,
     tool_calls |-> << >>, tool_call_id |-> 0]

AssistantMessage(message) ==
    [role |-> "assistant", content |-> message.content,
     tool_calls |-> message.tool_calls, tool_call_id |-> 0]

\* ToolMessage always carrying the first correlation id.
ToolMessage_FirstId(tool_call, result) ==
    [role |-> "tool", content |-> result.content, tool_calls |-> << >>,
     tool_call_id |-> 1]

ToolMessage(tool_call, result) ==
    [role |-> "tool", content |-> result.content, tool_calls |-> << >>,
     tool_call_id |-> tool_call.id]

\* f"[Calling tool {tool_name} with args {tool_args}]".
CallingLine(tool_call) ==
    << "[Calling tool ", tool_call.name, " with args ",
       JsonLoads(tool_call.arguments).value, "]" >>

\* "\n".join(final_text) raises TypeError when an item is None.
JoinRaises(texts) == \E i \in 1 .. Len(texts) : texts[i] = NoContent

\* Join returning the last item only.
Join_LastOnly(texts) == IF texts = << >> THEN EmptyStr ELSE texts[Len(texts)]

RECURSIVE Join(_)
Join(texts) ==
    IF texts = << >> THEN EmptyStr
    ELSE IF Len(texts) = 1 THEN texts[1]
    ELSE texts[1] \o << "\n" >> \o Join(Tail(texts))

\* What chat_loop prints after reading a line: nothing yet, the response, or the error.
NothingPrinted == [kind |-> "nothing", text |-> << >>]
PrintedResponse(text) == [kind |-> "response", text |-> << "\n" >> \o text]
PrintedError(exc) == [kind |-> "error", text |-> << "\nError: ", exc >>]

\* The request of a chat.completions.create call: the conversation and the tools
\* offered (NoTools: the call passes no tools).
NoTools == {"no tools"}
LlmRequest(msgs, tools) == [messages |-> msgs, tools |-> tools]

\* The request of a session.call_tool call.
McpRequest(tool_call) ==
    [name |-> tool_call.name, args |-> JsonLoads(tool_call.arguments).value]

\* EndTurn leaving the loop after the print.
EndTurn_LeavesLoop(line) ==
    /\ cpc' = IF line.kind = "error" THEN "exited" ELSE "input"
    /\ printed' = line

\* The turn ends: chat_loop prints one line and returns to input().
EndTurn(line) ==
    /\ cpc' = "input"
    /\ printed' = line

\* ReadInput with the conversation kept across queries: the new user message is
\* appended to the messages of the earlier query.
ReadInput_KeepsConversation(line) ==
    /\ UNCHANGED <<vars, scheduleVars>>
    /\ cpc = "input"
    /\ LET q == Strip(line) IN
        /\ query' = q
        /\ printed' = NothingPrinted
        /\ IF Lower(q) = << "q", "u", "i", "t" >>
           THEN /\ cpc' = "exited"
                /\ UNCHANGED <<queryVars, llmLog, mcpLog>>
           ELSE /\ cpc' = "list_tools"
                /\ messages' = Append(messages, UserMessage(q))
                /\ available_tools' = {}
                /\ tool_calls' = << >>
                /\ tool_index' = 0
                /\ tool_results' = << >>
                /\ final_text' = << >>
                /\ llmLog' = << >>
                /\ mcpLog' = << >>

\* chat_loop reads a line: `quit` (stripped, lower-cased) breaks out of the loop;
\* anything else starts process_query, which builds the conversation and awaits
\* session.list_tools().  (The locals of the previous query are gone.)
ReadInput(line) ==
    /\ UNCHANGED <<vars, scheduleVars>>
    /\ cpc = "input"
    /\ LET q == Strip(line) IN
        /\ query' = q
        /\ printed' = NothingPrinted
        /\ IF Lower(q) = << "q", "u", "i", "t" >>
           THEN /\ cpc' = "exited"
                /\ UNCHANGED <<queryVars, llmLog, mcpLog>>
           ELSE /\ cpc' = "list_tools"
                /\ messages' = << UserMessage(q) >>
                /\ available_tools' = {}
                /\ tool_calls' = << >>
                /\ tool_index' = 0
                /\ tool_results' = << >>
                /\ final_text' = << >>
                /\ llmLog' = << >>
                /\ mcpLog' = << >>

\* input() raises EOFError: caught by `except Exception`, printed, and the loop goes on.
ReadInputFails ==
    /\ UNCHANGED <<vars, scheduleVars>>
    /\ cpc = "input"
    /\ EndTurn(PrintedError("EOFError"))
    /\ UNCHANGED <<query, queryVars, llmLog, mcpLog>>

\* list_tools returns (or raises); on return the first completion is requested with
\* the conversation and every listed tool.
ListToolsResponse(out) ==
    /\ UNCHANGED <<vars, scheduleVars>>
    /\ cpc = "list_tools"
    /\ IF out = "raise"
       THEN /\ EndTurn(PrintedError("McpError"))
            /\ UNCHANGED <<query, queryVars, llmLog, mcpLog>>
       ELSE /\ available_tools' = ToolNames
            /\ llmLog' = Append(llmLog, LlmRequest(messages, ToolNames))
            /\ cpc' = "completion1"
            /\ UNCHANGED <<query, messages, tool_calls, tool_index, tool_results,
                           final_text, mcpLog, printed>>

\* ToolLoop starting the next invocation together with the i-th one, when both
\* argument texts decode.
ToolLoop_StartsTwo(calls, i, msgs, texts, results) ==
    /\ messages' = msgs
    /\ final_text' = texts
    /\ tool_results' = results
    /\ IF i <= Len(calls)
       THEN /\ tool_index' = i
            /\ IF JsonLoads(calls[i].arguments).ok
               THEN /\ cpc' = "call_tool"
                    /\ mcpLog' =
                          IF i < Len(calls) /\ JsonLoads(calls[i + 1].arguments).ok
                          THEN Append(Append(mcpLog, McpRequest(calls[i])),
                                      McpRequest(calls[i + 1]))
                          ELSE Append(mcpLog, McpRequest(calls[i]))
                    /\ UNCHANGED <<llmLog, printed>>
               ELSE /\ EndTurn(PrintedError("JSONDecodeError"))
                    /\ UNCHANGED <<llmLog, mcpLog>>
       ELSE /\ cpc' = "completion2"
            /\ llmLog' = Append(llmLog, LlmRequest(msgs, NoTools))
            /\ UNCHANGED <<tool_index, mcpLog, printed>>

\* ToolLoop keeping only the newest message of the conversation.
ToolLoop_DropsHistory(calls, i, msgs, texts, results) ==
    /\ messages' = << msgs[Len(msgs)] >>
    /\ final_text' = texts
    /\ tool_results' = results
    /\ IF i <= Len(calls)
       THEN /\ tool_index' = i
            /\ IF JsonLoads(calls[i].arguments).ok
               THEN /\ cpc' = "call_tool"
                    /\ mcpLog' = Append(mcpLog, McpRequest(calls[i]))
                    /\ UNCHANGED <<llmLog, printed>>
               ELSE /\ EndTurn(PrintedError("JSONDecodeError"))
                    /\ UNCHANGED <<llmLog, mcpLog>>
       ELSE /\ cpc' = "completion2"
            /\ llmLog' = Append(llmLog, LlmRequest(msgs, NoTools))
            /\ UNCHANGED <<tool_index, mcpLog, printed>>

\* `for tool_call in assistant_message.tool_calls` from its i-th iteration up to the
\* next wait: json.loads then call_tool; after the last iteration the second
\* completion is requested, without tools.
ToolLoop(calls, i, msgs, texts, results) ==
    /\ messages' = msgs
    /\ final_text' = texts
    /\ tool_results' = results
    /\ IF i <= Len(calls)
       THEN /\ tool_index' = i
            /\ IF JsonLoads(calls[i].arguments).ok
               THEN /\ cpc' = "call_tool"
                    /\ mcpLog' = Append(mcpLog, McpRequest(calls[i]))
                    /\ UNCHANGED <<llmLog, printed>>
               ELSE /\ EndTurn(PrintedError("JSONDecodeError"))
                    /\ UNCHANGED <<llmLog, mcpLog>>
       ELSE /\ cpc' = "completion2"
            /\ llmLog' = Append(llmLog, LlmRequest(msgs, NoTools))
            /\ UNCHANGED <<tool_index, mcpLog, printed>>

\* `return "\n".join(final_text)` and chat_loop's print of the response.
Finish(texts) ==
    /\ final_text' = texts
    /\ IF JoinRaises(texts)
       THEN EndTurn(PrintedError("TypeError"))
       ELSE EndTurn(PrintedResponse(Join(texts)))

\* The first completion returns (or raises): without tool calls its text is returned;
\* with tool calls the assistant message is appended and the loop starts.
FirstCompletion(out) ==
    /\ UNCHANGED <<vars, scheduleVars>>
    /\ cpc = "completion1"
    /\ IF out.raised
       THEN /\ EndTurn(PrintedError("APIError"))
            /\ UNCHANGED <<query, queryVars, llmLog, mcpLog>>
       ELSE LET m == out.message
                texts == << OrEmpty(m.content) >> IN
            /\ tool_calls' = m.tool_calls
            /\ UNCHANGED <<query, available_tools>>
            /\ IF m.tool_calls # << >>
               THEN ToolLoop(m.tool_calls, 1, Append(messages, AssistantMessage(m)),
                             texts, tool_results)
               ELSE /\ Finish(texts)
                    /\ UNCHANGED <<messages, tool_index, tool_results, llmLog, mcpLog>>

\* call_tool returns (or raises): the result is recorded, the tool message appended,
\* and the loop goes on.
ToolResponse(out) ==
    /\ UNCHANGED <<vars, scheduleVars>>
    /\ cpc = "call_tool"
    /\ IF out = "raise"
       THEN /\ EndTurn(PrintedError("McpError"))
            /\ UNCHANGED <<query, queryVars, llmLog, mcpLog>>
       ELSE LET tool_call == tool_calls[tool_index]
                result == CallToolResult(tool_call.name, out = "error_result") IN
            /\ ToolLoop(tool_calls, tool_index + 1,
                        Append(messages, ToolMessage(tool_call, result)),
                        Append(final_text, CallingLine(tool_call)),
                        Append(tool_results, [call |-> tool_call.name, result |-> result]))
            /\ UNCHANGED <<query, available_tools, tool_calls>>

\* SecondCompletion starting another tool round when the completion asks for one.
SecondCompletion_AnotherRound(out) ==
    /\ UNCHANGED <<vars, scheduleVars>>
    /\ cpc = "completion2"
    /\ IF out.raised
       THEN /\ EndTurn(PrintedError("APIError"))
            /\ UNCHANGED <<query, queryVars, llmLog, mcpLog>>
       ELSE IF out.message.tool_calls # << >> /\ Len(llmLog) < 3
       THEN /\ cpc' = "completion2"
            /\ llmLog' = Append(llmLog, LlmRequest(messages, NoTools))
            /\ UNCHANGED <<query, queryVars, mcpLog, printed>>
       ELSE /\ Finish(Append(final_text, out.message.content))
            /\ UNCHANGED <<query, messages, available_tools, tool_calls, tool_index,
                           tool_results, llmLog, mcpLog>>

\* The second completion returns (or raises): its content is appended and the joined
\* text returned; its tool_calls are not looked at.
SecondCompletion(out) ==
    /\ UNCHANGED <<vars, scheduleVars>>
    /\ cpc = "completion2"
    /\ IF out.raised
       THEN /\ EndTurn(PrintedError("APIError"))
            /\ UNCHANGED <<query, queryVars, llmLog, mcpLog>>
       ELSE /\ Finish(Append(final_text, out.message.content))
            /\ UNCHANGED <<query, messages, available_tools, tool_calls, tool_index,
                           tool_results, llmLog, mcpLog>>

\* MCPClient() and connect_to_server are done; chat_loop is at its first prompt.
ClientInit ==
    /\ cpc = "input"
    /\ query = << >>
    /\ messages = << >>
    /\ available_tools = {}
    /\ tool_calls = << >>
    /\ tool_index = 0
    /\ tool_results = << >>
    /\ final_text = << >>
    /\ llmLog = << >>
    /\ mcpLog = << >>
    /\ printed = NothingPrinted

ClientNext ==
    \/ \E line \in Inputs : ReadInput(line)
    \/ ReadInputFails
    \/ \E out \in ListOutcomes : ListToolsResponse(out)
    \/ \E out \in LlmOutcomes : FirstCompletion(out)
    \/ \E out \in McpOutcomes : ToolResponse(out)
    \/ \E out \in SecondOutcomes : SecondCompletion(out)

\* ------------------------------------------------------------------ schedule report

\* The longest payload of the schedule endpoint that is tried.
MaxLessons == 3

\* lesson_date is a Unix timestamp; this many of the timestamps tried fall on one
\* calendar day.
StampsPerDay == 2

\* `x.get("lesson_date", 0)`: 0 when the entry has no lesson date; the other values
\* are timestamps, the first on one day and the next StampsPerDay on the day after.
LessonDates == 0 .. StampsPerDay + 1

\* `x.get("lessonPair", {}).get("code", "")`: "" without a lesson pair, else the code,
\* a string of digits ("1", "10", "2").
PairCodes == { << >>, << 1 >>, << 1, 0 >>, << 2 >> }

\* An entry of the payload, as far as the ordering looks at it.
Lessons == [lesson_date : LessonDates, code : PairCodes]

NoLesson == [lesson_date |-> 0, code |-> << >>]

\* The payloads tried: every list of at most MaxLessons entries.
Payloads == UNION { [1 .. n -> Lessons] : n \in 0 .. MaxLessons }

\* `schedule[0].get("weekStartTime") and schedule[0].get("weekEndTime")`.
WeekInfos == {"absent", "present"}

\* datetime.fromtimestamp(ts).strftime('%Y-%m-%d'): the calendar day of a timestamp
\* (days are numbered; several timestamps fall on one day).
Day(ts) == ts \div StampsPerDay

\* Python's `<` on str: character by character, a proper prefix first.
RECURSIVE StrLess(_, _)
StrLess(s, t) ==
    IF t = << >> THEN FALSE
    ELSE IF s = << >> THEN TRUE
    ELSE IF s[1] # t[1] THEN s[1] < t[1]
    ELSE StrLess(Tail(s), Tail(t))

\* KeyLess comparing the lesson dates only.
KeyLess_DateOnly(a, b) == a.lesson_date < b.lesson_date

\* `<` on the sort keys (lesson_date, code) of two entries: tuples compare item by
\* item.
KeyLess(a, b) ==
    \/ a.lesson_date < b.lesson_date
    \/ a.lesson_date = b.lesson_date /\ StrLess(a.code, b.code)

\* list.sort is stable: an entry goes behind every entry whose key is not greater.
RECURSIVE Insert(_, _)
Insert(x, sorted) ==
    IF sorted = << >> THEN << x >>
    ELSE IF KeyLess(x, sorted[1]) THEN << x >> \o sorted
    ELSE << sorted[1] >> \o Insert(x, Tail(sorted))

RECURSIVE SortInto(_, _)
SortInto(list, sorted) ==
    IF list = << >> THEN sorted ELSE SortInto(Tail(list), Insert(list[1], sorted))

\* schedule.sort(key=lambda x: (lesson_date, lessonPair code)).
Sorted(list) == SortInto(list, << >>)

\* schedule_by_day[day].append(lesson): the dict keeps its keys in insertion order.
AddToDay(groups, day, lesson) ==
    IF \E k \in 1 .. Len(groups) : groups[k].day = day
    THEN [k \in 1 .. Len(groups) |->
            IF groups[k].day = day
            THEN [groups[k] EXCEPT !.lessons = Append(@, lesson)]
            ELSE groups[k]]
    ELSE Append(groups, [day |-> day, lessons |-> << lesson >>])

\* `for lesson in schedule: if lesson.get("lesson_date"): ...`: entries without a
\* lesson date are left out.
RECURSIVE GroupByDay(_, _)
GroupByDay(list, groups) ==
    IF list = << >> THEN groups
    ELSE GroupByDay(Tail(list),
                    IF list[1].lesson_date # 0
                    THEN AddToDay(groups, Day(list[1].lesson_date), list[1])
                    ELSE groups)

\* The lines of the report: the title, the week line, a day heading, the block of
\* lines of one lesson, and the two "nothing found" texts.
Line(kind, day, lesson) == [kind |-> kind, day |-> day, lesson |-> lesson]
TitleLine == Line("title", 0, NoLesson)
WeekLine == Line("week", 0, NoLesson)
DayLine(day) == Line("day", day, NoLesson)
LessonLine(lesson) == Line("lesson", Day(lesson.lesson_date), lesson)
NoClassesLine == Line("no_classes", 0, NoLesson)
NoScheduleLine == Line("no_schedule", 0, NoLesson)

\* `for day, lessons in schedule_by_day.items(): ... for lesson in lessons: ...`.
RECURSIVE DaySections(_)
DaySections(groups) ==
    IF groups = << >> THEN << >>
    ELSE << DayLine(groups[1].day) >>
         \o [k \in 1 .. Len(groups[1].lessons) |-> LessonLine(groups[1].lessons[k])]
         \o DaySections(Tail(groups))

\* The report built from the sorted list.
ScheduleLines(sorted, week) ==
    LET schedule_by_day == GroupByDay(sorted, << >>) IN
    << TitleLine >>
    \o (IF week = "present" THEN << WeekLine >> ELSE << >>)
    \o DaySections(schedule_by_day)
    \o (IF schedule_by_day = << >> THEN << NoClassesLine >> ELSE << >>)

\* get_student_schedule from `schedule = data["data"]` to its return.
get_student_schedule(week) ==
    /\ report = << >>
    /\ IF payload = << >>
       THEN /\ report' = << NoScheduleLine >>
            /\ UNCHANGED schedule
       ELSE /\ schedule' = Sorted(payload)
            /\ report' = ScheduleLines(Sorted(payload), week)
    /\ UNCHANGED payload
    /\ UNCHANGED <<vars, clientVars>>

\* No schedule request is being answered.
ScheduleIdle ==
    /\ payload = << >>
    /\ schedule = << >>
    /\ report = << >>

ScheduleNext == \E week \in WeekInfos : get_student_schedule(week)

\* ------------------------------------------------------------------ specifications

\* The server process has started: nothing is cached yet and no tool is running.
ServerInit ==
    /\ now = 0
    /\ \E env \in Environments : STUDENT_LOGIN = env.login /\ STUDENT_PASSWORD = env.password
    /\ _cached_token = None
    /\ _token_expiry = NoIso
    /\ tokenFile = FileAbsent
    /\ call = [c \in Callers |-> Idle]

Init ==
    /\ ServerInit
    /\ ClientInit
    /\ ScheduleIdle

Next ==
    \/ \E c \in Callers, tool \in Tools, rd \in ReadOutcomes : InvokeProtected(c, tool, rd)
    \/ \E c \in Callers, tool \in Tools : InvokePublic(c, tool)
    \/ \E c \in Callers, http \in LoginOutcomes, wr \in WriteOutcomes :
          LoginResponse(c, http, wr)
    \/ \E c \in Callers, http \in GetOutcomes : GetResponse(c, http)
    \/ Tick
    \/ \E env \in Environments : Restart(env)

\* The server process, called by MCP clients that are not looked at.
Spec == Init /\ [][Next]_vars

\* The server process when token_cache.json can always be read and written.
ReliableStorageNext ==
    \/ \E c \in Callers, tool \in Tools : InvokeProtected(c, tool, "ok")
    \/ \E c \in Callers, tool \in Tools : InvokePublic(c, tool)
    \/ \E c \in Callers, http \in LoginOutcomes : LoginResponse(c, http, "ok")
    \/ \E c \in Callers, http \in GetOutcomes : GetResponse(c, http)
    \/ Tick
    \/ \E env \in Environments : Restart(env)

ReliableStorageSpec == Init /\ [][ReliableStorageNext]_vars

\* The chat client starts beside a server that was started with credentials and is
\* not looked at.
ClientStart ==
    /\ Init
    /\ STUDENT_LOGIN = "student"
    /\ STUDENT_PASSWORD = "secret"

ClientSpec == ClientStart /\ [][ClientNext]_clientVars

\* The chat client when every call it waits on returns or raises in the end.
ClientLive == ClientSpec /\ WF_clientVars(ClientNext)

\* get_student_schedule has received a successful response with some payload.
ScheduleStart ==
    /\ ServerInit
    /\ STUDENT_LOGIN = "student"
    /\ STUDENT_PASSWORD = "secret"
    /\ ClientInit
    /\ payload \in Payloads
    /\ schedule = << >>
    /\ report = << >>

ScheduleSpec == ScheduleStart /\ [][ScheduleNext]_scheduleVars

\* ------------------------------------------------------------------ properties

\* A token slot (token, ISO expiry) that holds a token whose expiry lies after t.
Unexpired(token, expiry, t) ==
    token \in Tokens /\ IsIso(expiry) /\ t < FromIsoFormat(expiry)

\* The in-memory slot holds an unexpired token.
MemUnexpired == Unexpired(_cached_token, _token_expiry, now)

\* The durable record holds an unexpired token.
FileUnexpired ==
    tokenFile.state = "record" /\ Unexpired(tokenFile.token, tokenFile.expiry, now)

\* The login POST ended in a network error, a non-2xx status, an undecodable body, or
\* a body whose success indicator is not true.
LoginFailed(http) == http.kind # "json" \/ http.body.success # "true"

\* The login POST returned success with a token in data.token.
LoginSucceeded(http) ==
    http.kind = "json" /\ http.body.success = "true" /\ http.body.token \in Tokens

\* A step in which caller c starts a protected tool (it runs to its first suspension,
\* or to its return).
StartsProtected(c) ==
    /\ call[c].pc \in {"idle", "done"}
    /\ call'[c].pc \in {"post", "get", "done"}
    /\ call'[c].tool \in ProtectedTools

\* A step in which caller c's login POST completes.
LoginCompletes(c) == call[c].pc = "post" /\ call'[c].pc \in {"get", "done"}

\* A step in which caller c's backend GET completes.
GetCompletes(c) == call[c].pc = "get" /\ call'[c].pc = "done"

C2_Original ==
    [][\A c \in Callers :
        /\ (StartsProtected(c) /\ (~Truthy(STUDENT_LOGIN) \/ ~Truthy(STUDENT_PASSWORD))) =>
             \A rd \in ReadOutcomes :
                InvokeProtected(c, call'[c].tool, rd) =>
                    call'[c] = Done(call'[c].tool, Text(AuthError))
        /\ LoginCompletes(c) =>
             \A http \in LoginOutcomes :
                (LoginFailed(http) /\ LoginResponse(c, http, "ok")) =>
                    call'[c] = Done(call[c].tool, Text(AuthError))
      ]_vars

\* C2 amended: when get_cached_token finds no unexpired token (none in memory, and none
\* in the durable record or the record cannot be read), missing credentials make
\* login_to_hemis return None without a login call, and a login call that fails
\* returns None; neither raises, and the cache is left as it was.
C2_NoTokenOnFailure ==
    [][\A c \in Callers :
        /\ (StartsProtected(c) /\ (~Truthy(STUDENT_LOGIN) \/ ~Truthy(STUDENT_PASSWORD))) =>
             \A rd \in ReadOutcomes :
                (/\ InvokeProtected(c, call'[c].tool, rd)
                 /\ ~MemUnexpired
                 /\ ~(FileUnexpired /\ rd = "ok")) =>
                    /\ call'[c] = Done(call'[c].tool, Text(AuthError))
                    /\ UNCHANGED cacheVars
        /\ LoginCompletes(c) =>
             \A http \in LoginOutcomes :
                (LoginFailed(http) /\ LoginResponse(c, http, "ok")) =>
                    /\ call'[c] = Done(call[c].tool, Text(AuthError))
                    /\ UNCHANGED cacheVars
      ]_vars

\* C2 witness: with only the login id configured and nothing cached, a protected tool
\* has returned the authentication error.
C2_Witness ==
    \E c \in Callers :
        /\ Truthy(STUDENT_LOGIN) /\ ~Truthy(STUDENT_PASSWORD)
        /\ ~MemUnexpired /\ ~FileUnexpired
        /\ call[c] = Done("get_student_profile", Text(AuthError))

\* C3 as claimed: a successful login returns the payload's token and leaves it, with
\* expiry now + 7 days, in memory and in the durable record.
C3_Original ==
    [][\A c \in Callers :
        LoginCompletes(c) =>
            \A http \in LoginOutcomes, wr \in WriteOutcomes :
                (LoginSucceeded(http) /\ LoginResponse(c, http, wr)) =>
                    /\ call'[c] = AwaitingGet(call[c].tool, http.body.token)
                    /\ _cached_token' = http.body.token
                    /\ IsIso(_token_expiry')
                    /\ FromIsoFormat(_token_expiry') = now + 7
                    /\ tokenFile' = FileRecord(http.body.token, _token_expiry')
      ]_vars

\* C3 amended: a successful login returns the payload's token and leaves it, with
\* expiry now + 7 days, in memory; the durable record is overwritten with the same
\* token and expiry provided the write succeeds (a failed write is swallowed and
\* leaves the old file, or a truncated one).
C3_LoginStoresToken ==
    [][\A c \in Callers :
        LoginCompletes(c) =>
            \A http \in LoginOutcomes, wr \in WriteOutcomes :
                (LoginSucceeded(http) /\ LoginResponse(c, http, wr)) =>
                    /\ call'[c] = AwaitingGet(call[c].tool, http.body.token)
                    /\ call'[c].request.bearer = http.body.token
                    /\ _cached_token' = http.body.token
                    /\ IsIso(_token_expiry')
                    /\ FromIsoFormat(_token_expiry') = now + 7
                    /\ wr = "ok" => tokenFile' = FileRecord(http.body.token, _token_expiry')
                    /\ wr = "open_failed" => tokenFile' = tokenFile
                    /\ wr = "dump_failed" => tokenFile' = FileMalformed
      ]_vars

\* C3 witness: right after a login at a time past day 0 the caller's GET carries the
\* token, and memory and the durable record hold it with expiry now + 7.
C3_Witness ==
    \E c \in Callers :
        /\ call[c].pc = "get"
        /\ call[c].tool \in ProtectedTools
        /\ now > 0
        /\ call[c].request.bearer = _cached_token
        /\ _cached_token \in Tokens
        /\ FromIsoFormat(_token_expiry) = now + 7
        /\ tokenFile = FileRecord(_cached_token, _token_expiry)


NoUnexpiredToken == ~MemUnexpired /\ ~FileUnexpired

\* C5 as claimed: with no unexpired token cached the next protected invocation posts a
\* login; a successful login replaces memory and the durable record and its token goes
\* on the GET; a login is posted only when neither slot holds an unexpired token.
C5_Original ==
    [][\A c \in Callers :
        /\ StartsProtected(c) =>
             \A rd \in ReadOutcomes :
                InvokeProtected(c, call'[c].tool, rd) =>
                    /\ NoUnexpiredToken => call'[c].pc = "post"
                    /\ call'[c].pc = "post" => NoUnexpiredToken
        /\ LoginCompletes(c) =>
             \A http \in LoginOutcomes, wr \in WriteOutcomes :
                (LoginSucceeded(http) /\ LoginResponse(c, http, wr)) =>
                    /\ _cached_token' = http.body.token
                    /\ FromIsoFormat(_token_expiry') = now + 7
                    /\ tokenFile' = FileRecord(http.body.token, _token_expiry')
                    /\ call'[c].request.bearer = http.body.token
      ]_vars

\* C5 amended: with credentials configured, once no slot holds an unexpired token the
\* next protected invocation posts a login; a successful login replaces the memory
\* token and expiry together (and the durable record, unless the write fails) and its
\* token goes on that invocation's GET; a login is posted only when memory holds no
\* unexpired token and the durable record holds none or could not be read.
C5_Reauthentication ==
    [][\A c \in Callers :
        /\ StartsProtected(c) =>
             \A rd \in ReadOutcomes :
                InvokeProtected(c, call'[c].tool, rd) =>
                    /\ (NoUnexpiredToken /\ Truthy(STUDENT_LOGIN) /\ Truthy(STUDENT_PASSWORD))
                          => call'[c].pc = "post"
                    /\ call'[c].pc = "post" =>
                          /\ ~MemUnexpired
                          /\ ~(FileUnexpired /\ rd = "ok")
                          /\ Truthy(STUDENT_LOGIN) /\ Truthy(STUDENT_PASSWORD)
        /\ LoginCompletes(c) =>
             \A http \in LoginOutcomes, wr \in WriteOutcomes :
                (LoginSucceeded(http) /\ LoginResponse(c, http, wr)) =>
                    /\ _cached_token' = http.body.token
                    /\ FromIsoFormat(_token_expiry') = now + 7
                    /\ wr = "ok" => tokenFile' = FileRecord(http.body.token, _token_expiry')
                    /\ call'[c].pc = "get"
                    /\ call'[c].request.bearer = http.body.token
      ]_vars

\* C5 witness: on or after day 7 a login has just replaced the cache (memory and file
\* hold the token with expiry now + 7) and its token is on the caller's GET, while
\* the other caller's GET still carries the token that was cached before.
C5_Witness ==
    \E c \in Callers, d \in Callers :
        /\ now >= TokenLifetimeDays
        /\ call[c].pc = "get"
        /\ call[c].request.bearer = _cached_token
        /\ FromIsoFormat(_token_expiry) = now + 7
        /\ tokenFile = FileRecord(_cached_token, _token_expiry)
        /\ call[d].pc = "get"
        /\ call[d].request.bearer \in Tokens \ {_cached_token}


\* The literal a protected tool returns when login_to_hemis gave no token.
AuthErrorLiteral ==
    << "Unable to authenticate", " with HEMIS. Please check your credentials." >>

\* HEMIS_LOGIN or HEMIS_PASSWORD is not configured.
NoCredentials == STUDENT_LOGIN = None \/ STUDENT_PASSWORD = None

\* C6 as claimed: with no credentials configured every protected invocation returns
\* the authentication-error literal at once, with no login POST and no backend GET.
C6_Original ==
    [][\A c \in Callers :
        (StartsProtected(c) /\ NoCredentials) =>
            \A rd \in ReadOutcomes :
                InvokeProtected(c, call'[c].tool, rd) =>
                    call'[c] = [pc |-> "done", tool |-> call'[c].tool,
                                request |-> NoRequest,
                                result |-> [kind |-> "text", text |-> AuthErrorLiteral]]
      ]_vars

\* C6 amended: with no credentials configured a protected invocation never posts a
\* login; when get_cached_token finds no unexpired token (none in memory, and none in
\* the durable record or the record cannot be read) it returns the authentication-error
\* literal at once with no backend GET; when it finds one, the GET goes out with it.
C6_NoCredentials ==
    [][\A c \in Callers :
        (StartsProtected(c) /\ NoCredentials) =>
            \A rd \in ReadOutcomes :
                InvokeProtected(c, call'[c].tool, rd) =>
                    /\ call'[c].pc # "post"
                    /\ (~MemUnexpired /\ ~(FileUnexpired /\ rd = "ok")) =>
                          call'[c] = [pc |-> "done", tool |-> call'[c].tool,
                                      request |-> NoRequest,
                                      result |-> [kind |-> "text", text |-> AuthErrorLiteral]]
                    /\ (MemUnexpired \/ (FileUnexpired /\ rd = "ok")) =>
                          /\ call'[c].pc = "get"
                          /\ call'[c].request.bearer \in {_cached_token, tokenFile.token}
      ]_vars

\* C6 witness: a process without credentials, whose durable record has expired, has
\* returned the authentication-error literal from a protected tool.
C6_Witness ==
    \E c \in Callers :
        /\ STUDENT_LOGIN = None /\ STUDENT_PASSWORD = None
        /\ tokenFile.state = "record" /\ ~FileUnexpired /\ ~MemUnexpired
        /\ call[c].tool \in ProtectedTools
        /\ call[c].pc = "done"
        /\ call[c].result = [kind |-> "text", text |-> AuthErrorLiteral]

\* The token login_to_hemis returns without suspending, None when it returns none or
\* has to post the login first.
ImmediateToken(rd) ==
    IF MemUnexpired THEN _cached_token
    ELSE IF FileUnexpired /\ rd = "ok" THEN tokenFile.token
    ELSE None

\* C7: a protected tool issues its GET only after login_to_hemis returned: when that
\* returns a token the GET goes to the tool's endpoint with exactly that token as the
\* Bearer credential; when it returns none the tool returns the authentication-error
\* literal as a text result and issues no GET; while the login is pending no GET is out.
C7_TokenBeforeGet ==
    [][\A c \in Callers :
        /\ StartsProtected(c) =>
             \A rd \in ReadOutcomes :
                InvokeProtected(c, call'[c].tool, rd) =>
                    LET r == ImmediateToken(rd) IN
                    /\ r \in Tokens =>
                          /\ call'[c].pc = "get"
                          /\ call'[c].request =
                                [endpoint |-> Endpoint(call'[c].tool), bearer |-> r]
                    /\ (r = None /\ NoCredentials) =>
                          /\ call'[c].pc = "done"
                          /\ call'[c].request = NoRequest
                          /\ call'[c].result = [kind |-> "text", text |-> AuthErrorLiteral]
                    /\ (r = None /\ ~NoCredentials) =>
                          /\ call'[c].pc = "post"
                          /\ call'[c].request = NoRequest
        /\ LoginCompletes(c) =>
             \A http \in LoginOutcomes :
                LoginResponse(c, http, "ok") =>
                    /\ LoginFailed(http) =>
                          /\ call'[c].pc = "done"
                          /\ call'[c].request = NoRequest
                          /\ call'[c].result = [kind |-> "text", text |-> AuthErrorLiteral]
                    /\ LoginSucceeded(http) =>
                          /\ call'[c].pc = "get"
                          /\ call'[c].request =
                                [endpoint |-> Endpoint(call[c].tool),
                                 bearer |-> http.body.token]
        /\ (call'[c].tool \in ProtectedTools /\ call'[c].pc = "get") =>
              call'[c].request.bearer \in Tokens
        /\ (call'[c].tool \in ProtectedTools /\ call'[c].pc \in {"post", "done"}) =>
              call'[c].request = NoRequest
      ]_vars

\* C7 witness: one protected invocation has its GET out with the cached token as
\* Bearer, another returned the authentication-error literal with no GET.
C7_Witness ==
    \E c \in Callers, d \in Callers :
        /\ call[c].tool \in ProtectedTools
        /\ call[c].pc = "get"
        /\ call[c].request.bearer = _cached_token
        /\ _cached_token \in Tokens
        /\ call[d].tool \in ProtectedTools
        /\ call[d].pc = "done"
        /\ call[d].request = NoRequest
        /\ call[d].result = [kind |-> "text", text |-> AuthErrorLiteral]


\* The backend GET ended in a network error or timeout, a non-2xx status, an
\* undecodable body, or a body whose success indicator is not true.
GetFailed(http) == http.kind # "json" \/ http.body.success # "true"

\* C8 as claimed: whenever its GET fails, every tool returns its own fixed text that
\* begins "Unable to fetch" (account/me: "Unable to fetch student profile information.").
C8_Original ==
    [][\A c \in Callers :
        GetCompletes(c) =>
            \A http \in GetOutcomes :
                (GetFailed(http) /\ GetResponse(c, http)) =>
                    /\ call'[c].result.kind = "text"
                    /\ call'[c].result.text = FetchFailedMsg(call[c].tool)
                    /\ call'[c].result.text[1] = "Unable to fetch"
                    /\ call[c].tool = "get_student_profile" =>
                          call'[c].result.text =
                             << "Unable to fetch", " student profile information." >>
      ]_vars

\* C8 amended: whenever its GET fails, every tool returns its own fixed text and never
\* raises; the text begins "Unable to fetch" for every tool except
\* generate_student_reference, whose text begins "Unable to generate" (account/me:
\* "Unable to fetch student profile information."); so it is for each of the 24 tools
\* when make_get_request returns None.
C8_FetchFailure ==
    [][\A c \in Callers :
        GetCompletes(c) =>
            /\ \A http \in GetOutcomes :
                (GetFailed(http) /\ GetResponse(c, http)) =>
                    /\ call'[c].result.kind = "text"
                    /\ call'[c].result.text = FetchFailedMsg(call[c].tool)
                    /\ call'[c].result.text[1] =
                          IF call[c].tool = "generate_student_reference"
                          THEN "Unable to generate" ELSE "Unable to fetch"
                    /\ call[c].tool = "get_student_profile" =>
                          call'[c].result.text =
                             << "Unable to fetch", " student profile information." >>
            /\ \A tool \in ToolNames :
                    LET r == ToolResult(tool, make_get_request("exception", NoBody)) IN
                    /\ r.kind = "text"
                    /\ r.text[1] = IF tool = "generate_student_reference"
                                   THEN "Unable to generate" ELSE "Unable to fetch"
      ]_vars

\* C8 witness: one invocation returned the account/me failure text and another one
\* returned generate_student_reference's failure text.
C8_Witness ==
    \E c \in Callers, d \in Callers :
        /\ call[c] = Done("get_student_profile",
                          Text(<< "Unable to fetch", " student profile information." >>))
        /\ call[d].pc = "done"
        /\ call[d].tool = "generate_student_reference"
        /\ call[d].result.kind = "text"
        /\ call[d].result.text[1] = "Unable to generate"

\* C9 as claimed: every finished tool invocation ended with a text result (none raised
\* past the tool boundary).
C9_NeverRaises ==
    \A c \in Callers : call[c].pc = "done" => call[c].result.kind = "text"

\* A step in which caller c starts a public tool.
StartsPublic(c) ==
    /\ call[c].pc \in {"idle", "done"}
    /\ call'[c].pc = "get"
    /\ call'[c].tool \in PublicTools

\* C10: a public tool invocation goes straight to its GET, which carries no bearer
\* token, whatever the cache holds; it never waits on a login; from its start to its
\* return the memory token, its expiry and the durable record stay as they were.
C10_PublicSkipsAuth ==
    [][\A c \in Callers :
        /\ StartsPublic(c) =>
              /\ InvokePublic(c, call'[c].tool)
              /\ call'[c].request =
                    [endpoint |-> Endpoint(call'[c].tool), bearer |-> NoBearer]
              /\ UNCHANGED cacheVars
        /\ (GetCompletes(c) /\ call[c].tool \in PublicTools) =>
              /\ UNCHANGED cacheVars
              /\ call[c].request.bearer = NoBearer
        /\ call'[c].tool \in PublicTools =>
              /\ call'[c].pc # "post"
              /\ call'[c].pc = "get" => call'[c].request.bearer = NoBearer
      ]_vars

\* C10 witness: with an unexpired token in memory and in the durable record, a public
\* tool's GET is out without a bearer token.
C10_Witness ==
    \E c \in Callers :
        /\ MemUnexpired /\ FileUnexpired
        /\ call[c].tool \in PublicTools
        /\ call[c].pc = "get"
        /\ call[c].request.bearer = NoBearer


\* C11: whenever the second completion is requested, the first completion asked for
\* N >= 1 invocations and the conversation sent is exactly the user message, the
\* assistant message carrying the N requests, and N tool messages, the i-th carrying
\* the i-th request's correlation id and the content returned by the i-th call_tool,
\* which was made for the i-th request's tool, in the order of the requests.
C11_ToolRoundCorrelation ==
    cpc = "completion2" =>
        LET N == Len(tool_calls) IN
        /\ N >= 1
        /\ Len(llmLog) = 2
        /\ llmLog[2].messages = messages
        /\ Len(messages) = N + 2
        /\ messages[1].role = "user" /\ messages[1].content = query
        /\ messages[2].role = "assistant" /\ messages[2].tool_calls = tool_calls
        /\ Len(mcpLog) = N /\ Len(tool_results) = N
        /\ \A i \in 1 .. N :
              /\ messages[2 + i].role = "tool"
              /\ messages[2 + i].tool_call_id = tool_calls[i].id
              /\ messages[2 + i].content = tool_results[i].result.content
              /\ messages[2 + i].content[1] = tool_calls[i].name
              /\ tool_results[i].call = tool_calls[i].name
              /\ mcpLog[i].name = tool_calls[i].name

\* C11 witness: the second completion is requested after two invocations whose
\* correlation ids came in the order 2, 1, for two different tools, the first of which
\* returned an error result.
C11_Witness ==
    /\ cpc = "completion2"
    /\ Len(tool_calls) = 2
    /\ tool_calls[1].id = 2 /\ tool_calls[2].id = 1
    /\ tool_calls[1].name # tool_calls[2].name
    /\ tool_results[1].result.isError
    /\ messages[3].tool_call_id = 2 /\ messages[4].tool_call_id = 1

\* C12 as claimed: a turn in which the first completion requested invocations ends
\* only after a tool message for every request (with its correlation id) was appended
\* and the second completion was requested, whatever went wrong with an invocation.
C12_RoundNotAborted ==
    (cpc = "input" /\ tool_calls # << >>) =>
        /\ Len(llmLog) = 2
        /\ Len(messages) = 2 + Len(tool_calls)
        /\ \A i \in 1 .. Len(tool_calls) :
              /\ messages[2 + i].role = "tool"
              /\ messages[2 + i].tool_call_id = tool_calls[i].id

\* The text process_query returns for a completion's content when nothing else was
\* collected.
TextOf(content) == IF content = NoContent THEN << >> ELSE content

\* C13: when the first completion carries no tool calls, that step ends the query:
\* no MCP tool was or is called, no second completion is requested, the conversation
\* stays the single user message, and the text printed is "\n" followed by exactly the
\* assistant's text (the empty string when the content is None).
C13_DirectAnswer ==
    [][cpc = "completion1" =>
        \A out \in LlmOutcomes :
            (~out.raised /\ out.message.tool_calls = << >> /\ FirstCompletion(out)) =>
                /\ cpc' = "input"
                /\ printed' = [kind |-> "response",
                               text |-> << "\n" >> \o TextOf(out.message.content)]
                /\ mcpLog' = << >>
                /\ llmLog' = llmLog /\ Len(llmLog) = 1
                /\ messages' = messages
                /\ messages = << [role |-> "user", content |-> query,
                                  tool_calls |-> << >>, tool_call_id |-> 0] >>
      ]_clientVars

\* C13 witness: a query answered directly: one completion, no MCP call, the
\* conversation still the user message, the assistant's text printed.
C13_Witness ==
    /\ cpc = "input"
    /\ printed = [kind |-> "response", text |-> << "\n", "answer A" >>]
    /\ Len(llmLog) = 1
    /\ mcpLog = << >>
    /\ Len(messages) = 1
    /\ tool_calls = << >>


\* C14 as claimed: when the first completion requested invocations, the text returned
\* (and printed after "\n") is the text of the second completion.
C14_Original ==
    [][cpc = "completion2" =>
        \A out \in SecondOutcomes :
            (~out.raised /\ SecondCompletion(out)) =>
                printed' = [kind |-> "response",
                            text |-> << "\n" >> \o TextOf(out.message.content)]
      ]_clientVars

\* The i-th "[Calling tool ...]" line of a round whose arguments all decoded.
ExpectedCallLine(i) ==
    << "[Calling tool ", tool_calls[i].name, " with args ", "{}", "]" >>

RECURSIVE ExpectedCallLines(_)
ExpectedCallLines(i) ==
    IF i > Len(tool_calls) THEN << >>
    ELSE << "\n" >> \o ExpectedCallLine(i) \o ExpectedCallLines(i + 1)

\* C14 amended: when the first completion requested invocations and the second
\* completion carries text, the text returned is the first completion's text (empty
\* when it has none), one "[Calling tool <name> with args <args>]" line per invocation
\* in request order, and last the second completion's text, joined by newlines; when
\* the second completion carries no text, process_query raises TypeError and chat_loop
\* prints the error.
C14_FinalAnswer ==
    [][cpc = "completion2" =>
        \A out \in SecondOutcomes :
            (~out.raised /\ SecondCompletion(out)) =>
                IF out.message.content = NoContent
                THEN printed' = [kind |-> "error", text |-> << "\nError: ", "TypeError" >>]
                ELSE /\ printed'.kind = "response"
                     /\ printed'.text =
                           << "\n" >> \o TextOf(messages[2].content)
                             \o ExpectedCallLines(1)
                             \o << "\n" >> \o out.message.content
                     /\ printed'.text[Len(printed'.text)] = out.message.content[1]
      ]_clientVars

\* C14 witness: a query with two invocations was answered: the printed text starts
\* with the first completion's text and ends with the second completion's.
C14_Witness ==
    /\ cpc = "input"
    /\ printed.kind = "response"
    /\ Len(llmLog) = 2
    /\ Len(tool_calls) = 2
    /\ messages[2].content = << "answer A" >>
    /\ printed.text[2] = "answer A"
    /\ printed.text[Len(printed.text)] = "answer B"

\* The turn's query ran to its return.
QueryReturned == cpc = "input" /\ printed.kind = "response"

\* C15, the counts: at most two completions are requested per query, the first with
\* the conversation's user message and every listed tool, the second (only after
\* requested invocations) without tools; at most one call_tool per requested
\* invocation; a query that returned requested one completion without tool calls and
\* two with.
C15_Counts ==
    /\ Len(llmLog) <= 2
    /\ Len(mcpLog) <= Len(tool_calls)
    /\ Len(tool_calls) <= MaxToolCalls
    /\ Len(llmLog) >= 1 =>
          /\ llmLog[1].tools = ToolNames
          /\ llmLog[1].messages = << messages[1] >>
          /\ messages[1].role = "user"
          /\ cpc \in {"completion1", "call_tool", "completion2"} =>
                messages[1].content = query
    /\ Len(llmLog) = 2 => (llmLog[2].tools = NoTools /\ tool_calls # << >>)
    /\ QueryReturned => Len(llmLog) = IF tool_calls = << >> THEN 1 ELSE 2

\* C15, the end: whatever the second completion contains (tool calls included), the
\* step that receives it ends the turn.
C15_SecondIsLast ==
    cpc = "completion2" => (cpc' = "input" /\ llmLog' = llmLog /\ mcpLog' = mcpLog)

\* C15: process_query is bounded to one tool round (C15_Counts, C15_SecondIsLast) and,
\* when the calls it waits on all end, every query started ends its turn.
C15_SingleRound ==
    /\ []C15_Counts
    /\ [][C15_SecondIsLast]_clientVars
    /\ (cpc \in {"list_tools", "completion1", "call_tool", "completion2"}) ~> (cpc = "input")

\* C15 witness: a query with two invocations returned after exactly two completions
\* and two call_tool requests.
C15_Witness ==
    /\ QueryReturned
    /\ Len(llmLog) = 2
    /\ Len(mcpLog) = 2
    /\ Len(tool_calls) = 2
    /\ llmLog[2].tools = NoTools

\* A line typed by the user that is `quit` once stripped and lower-cased.
IsQuit(line) == line \in { << "q", "u", "i", "t" >>, << " ", "Q", "u", "I", "T", "\t" >> }

\* C16: a failure while a query is processed (list_tools, a completion or call_tool
\* raising, or tool arguments that do not decode) ends that turn with the error printed
\* as text and the loop back at its prompt; the loop is left only on `quit`.
C16_ErrorsKeepLoop ==
    [][/\ cpc = "list_tools" =>
            (ListToolsResponse("raise") =>
                (cpc' = "input" /\ printed' = [kind |-> "error",
                                               text |-> << "\nError: ", "McpError" >>]))
       /\ cpc \in {"completion1", "completion2"} =>
            \A out \in LlmOutcomes :
                (out.raised /\ (FirstCompletion(out) \/ SecondCompletion(out))) =>
                    (cpc' = "input" /\ printed' = [kind |-> "error",
                                                   text |-> << "\nError: ", "APIError" >>])
       /\ cpc = "call_tool" =>
            (ToolResponse("raise") =>
                (cpc' = "input" /\ printed' = [kind |-> "error",
                                               text |-> << "\nError: ", "McpError" >>]))
       /\ (cpc \in {"completion1", "call_tool"} /\ cpc' \notin {"call_tool", "completion2"}
             /\ tool_index' >= 1 /\ Len(mcpLog') < tool_index') =>
            (cpc' = "input" /\ printed' = [kind |-> "error",
                                           text |-> << "\nError: ", "JSONDecodeError" >>])
       /\ cpc' = "exited" => (cpc = "input" /\ Lower(query') = << "q", "u", "i", "t" >>)
       /\ (cpc # "input" /\ cpc' = "input") => printed'.kind # "nothing"
      ]_clientVars

\* C16 witness: the second invocation's arguments did not decode after the first
\* invocation had run; the error is printed and the loop is at its prompt.
C16_Witness ==
    /\ cpc = "input"
    /\ Len(tool_calls) = 2 /\ tool_index = 2 /\ Len(mcpLog) = 1
    /\ printed = [kind |-> "error", text |-> << "\nError: ", "JSONDecodeError" >>]

\* C17: a line that is `quit` after stripping and lower-casing ends the loop in the
\* step that reads it: process_query is not started (no request is made, the
\* conversation is not touched), nothing is printed then or later; no other line
\* ends the loop.
C17_Quit ==
    [][/\ cpc = "input" =>
            \A line \in Inputs :
                ReadInput(line) =>
                    IF IsQuit(line)
                    THEN /\ cpc' = "exited"
                         /\ printed' = NothingPrinted
                         /\ UNCHANGED <<messages, llmLog, mcpLog, final_text>>
                    ELSE cpc' = "list_tools"
       /\ cpc = "exited" => UNCHANGED clientVars
      ]_clientVars

\* C17 witness: after one answered query the user typed " QuIT\t" and the loop is over
\* with nothing printed since.
C17_Witness ==
    /\ cpc = "exited"
    /\ query = << "Q", "u", "I", "T" >>
    /\ Len(llmLog) = 2
    /\ printed = NothingPrinted


\* C18: when the memory slot holds a token whose expiry is ahead, a protected
\* invocation gets that token at once: the GET goes out with it and no login is
\* posted, whatever the durable record holds and whether or not it could be read
\* (the lookup does not depend on the file), and memory and file stay as they were.
C18_MemoryFastPath ==
    [][\A c \in Callers :
        (StartsProtected(c) /\ MemUnexpired) =>
            /\ \A rd \in ReadOutcomes :
                InvokeProtected(c, call'[c].tool, rd) =>
                    /\ UNCHANGED cacheVars
                    /\ call'[c].pc = "get"
                    /\ call'[c].request.bearer = _cached_token
            /\ \A rd \in ReadOutcomes,
                  file \in {FileAbsent, FileMalformed, tokenFile,
                            [state |-> "record", token |-> "tokA",
                             expiry |-> << 0, 0, 9 >>],
                            [state |-> "record", token |-> "tokB",
                             expiry |-> << 0, 0, 0 >>]} :
                LET got == CachedTokenLookup(_cached_token, _token_expiry, file, now, rd) IN
                /\ got.ret = _cached_token
                /\ got.token = _cached_token
                /\ got.expiry = _token_expiry
      ]_vars

\* C18 witness: a process without the password (so no login of its own) holds an
\* unexpired token in memory and both callers' GETs carry it: the second of them was
\* served from memory.
C18_Witness ==
    /\ STUDENT_LOGIN # None
    /\ STUDENT_PASSWORD = None
    /\ MemUnexpired
    /\ \A c \in Callers :
          /\ call[c].pc = "get"
          /\ call[c].tool \in ProtectedTools
          /\ call[c].request.bearer = _cached_token

\* C19 as claimed: with no unexpired token in memory and a durable record whose
\* expiry is ahead, a protected invocation adopts the record (token and expiry) into
\* memory, sends its GET with that token and posts no login.
C19_Original ==
    [][\A c \in Callers :
        (StartsProtected(c) /\ ~MemUnexpired /\ FileUnexpired) =>
            \A rd \in ReadOutcomes :
                InvokeProtected(c, call'[c].tool, rd) =>
                    /\ _cached_token' = tokenFile.token
                    /\ _token_expiry' = tokenFile.expiry
                    /\ call'[c].pc = "get"
                    /\ call'[c].request.bearer = tokenFile.token
      ]_vars

\* C19 amended: with no unexpired token in memory and a durable record whose expiry
\* is ahead, a protected invocation that can read the record adopts it (token and
\* expiry) into memory, sends its GET with that token, posts no login and leaves the
\* file alone; when the read fails memory is left as it was and the invocation goes on
\* to the login (or, without credentials, to the authentication error).
C19_DiskFallback ==
    [][\A c \in Callers :
        (StartsProtected(c) /\ ~MemUnexpired /\ FileUnexpired) =>
            /\ InvokeProtected(c, call'[c].tool, "ok") =>
                    /\ _cached_token' = tokenFile.token
                    /\ _token_expiry' = tokenFile.expiry
                    /\ FromIsoFormat(_token_expiry') > now
                    /\ tokenFile' = tokenFile
                    /\ call'[c].pc = "get"
                    /\ call'[c].request.bearer = tokenFile.token
            /\ InvokeProtected(c, call'[c].tool, "ioerror") =>
                    /\ UNCHANGED cacheVars
                    /\ call'[c].pc = IF NoCredentials THEN "done" ELSE "post"
      ]_vars

\* C19 witness: a process with no credentials at all holds in memory exactly the
\* unexpired durable record (token and expiry) and a GET carries that token.
C19_Witness ==
    \E c \in Callers :
        /\ STUDENT_LOGIN = None
        /\ STUDENT_PASSWORD = None
        /\ FileUnexpired
        /\ _cached_token = tokenFile.token
        /\ _token_expiry = tokenFile.expiry
        /\ call[c].pc = "get"
        /\ call[c].request.bearer = tokenFile.token

\* C20: a failed write in save_token still leaves the new token and its expiry in
\* memory and the invocation sends its GET with the token; a failed read, an absent
\* file or a malformed record makes get_cached_token find nothing: memory is left as
\* it was and the invocation goes on to the login (without credentials, to the
\* authentication error); nothing is raised in either case.
C20_StorageFailuresSwallowed ==
    [][\A c \in Callers :
        /\ LoginCompletes(c) =>
             \A http \in LoginOutcomes, wr \in WriteOutcomes \ {"ok"} :
                (LoginSucceeded(http) /\ LoginResponse(c, http, wr)) =>
                    /\ _cached_token' = http.body.token
                    /\ FromIsoFormat(_token_expiry') = now + 7
                    /\ tokenFile'.state # "record" \/ tokenFile' = tokenFile
                    /\ call'[c].pc = "get"
                    /\ call'[c].request.bearer = http.body.token
                    /\ call'[c].result.kind # "raised"
        /\ (StartsProtected(c) /\ ~MemUnexpired) =>
             \A rd \in ReadOutcomes :
                ((rd = "ioerror" \/ tokenFile.state # "record")
                    /\ InvokeProtected(c, call'[c].tool, rd)) =>
                    /\ UNCHANGED cacheVars
                    /\ call'[c].result.kind # "raised"
                    /\ ~NoCredentials => call'[c].pc = "post"
                    /\ NoCredentials =>
                          (call'[c].pc = "done" /\ call'[c].result.text = AuthErrorLiteral)
      ]_vars

\* C20 witness: the login's token is in memory, unexpired, and on the caller's GET
\* while token_cache.json holds no record (the write failed).
C20_Witness ==
    \E c \in Callers :
        /\ MemUnexpired
        /\ tokenFile.state # "record"
        /\ call[c].pc = "get"
        /\ call[c].tool \in ProtectedTools
        /\ call[c].request.bearer = _cached_token

\* C21: the token refresh is not mutually exclusive.  While one caller is suspended in
\* its login POST and no unexpired token is cached (credentials configured), a second
\* caller can start any protected tool and it, too, posts a login.
C21_DuplicateLogins ==
    \A c \in Callers, d \in Callers :
        (/\ c # d
         /\ call[d].pc = "post"
         /\ call[c].pc \in {"idle", "done"}
         /\ NoUnexpiredToken
         /\ ~CredentialsMissing) =>
            \A tool \in Tools \cap ProtectedTools, rd \in ReadOutcomes :
                ENABLED (InvokeProtected(c, tool, rd) /\ call'[c].pc = "post")

\* C21 witness: both callers are suspended in a login POST at the same time.
C21_Witness ==
    /\ \A c \in Callers : call[c].pc = "post"
    /\ NoUnexpiredToken

\* The correlation ids of the invocations an assistant message lists.
CallIds(message) == { message.tool_calls[k].id : k \in 1 .. Len(message.tool_calls) }

\* C22: in every state of a query, also in the middle of a tool round and after a round
\* was aborted, the conversation is the user message, then at most one assistant
\* message, then tool-result messages only; every tool-result message comes after that
\* assistant message and its correlation id is the id of one of the invocations the
\* assistant message lists.
C22_ToolResultsFollowAssistant ==
    \A i \in 1 .. Len(messages) :
        /\ messages[i].role = "user" <=> i = 1
        /\ messages[i].role = "assistant" <=> i = 2
        /\ messages[i].role = "tool" =>
              /\ i >= 3
              /\ messages[2].role = "assistant"
              /\ messages[2].tool_calls = tool_calls
              /\ messages[i].tool_call_id \in CallIds(messages[2])

\* C22 witness: a round of two invocations was aborted after the first tool result,
\* which carries the id 2 of the invocation listed first.
C22_Witness ==
    /\ cpc = "input"
    /\ printed.kind = "error"
    /\ Len(tool_calls) = 2
    /\ Len(messages) = 3
    /\ messages[3].role = "tool"
    /\ messages[3].tool_call_id = 2
    /\ tool_calls[1].id = 2

\* C23: the invocations of a round run one at a time.  A step starts at most one MCP
\* call, and starts the call of invocation i+1 only when the results and tool messages
\* of invocations 1..i are appended; while a call is outstanding it is the only one
\* (every earlier one has its result) and no completion is requested; a completion is
\* requested only with no call outstanding.
C23_SequentialInvocations ==
    [][/\ Len(mcpLog') <= Len(mcpLog) + 1
       /\ Len(mcpLog') = Len(mcpLog) + 1 =>
             /\ cpc' = "call_tool"
             /\ Len(tool_results') = Len(mcpLog)
             /\ Len(messages') = 2 + Len(mcpLog)
             /\ tool_index' = Len(mcpLog')
             /\ mcpLog'[tool_index'] = McpRequest(tool_calls'[tool_index'])
             /\ llmLog' = llmLog
       /\ cpc' = "call_tool" =>
             /\ Len(mcpLog') = Len(tool_results') + 1
             /\ Len(llmLog') = 1
       /\ cpc' = "completion1" => mcpLog' = << >>
       /\ cpc' = "completion2" =>
             /\ Len(mcpLog') = Len(tool_calls')
             /\ Len(tool_results') = Len(tool_calls')
             /\ Len(messages') = 2 + Len(tool_calls')
       /\ Len(llmLog') > Len(llmLog) => mcpLog' = mcpLog
      ]_clientVars

\* C23 witness: the second invocation's call is outstanding, the first one's result
\* and tool message are appended.
C23_Witness ==
    /\ cpc = "call_tool"
    /\ tool_index = 2
    /\ Len(mcpLog) = 2
    /\ Len(tool_results) = 1
    /\ Len(messages) = 3
    /\ messages[3].role = "tool"

\* C24: within one query (from its first message until chat_loop is back at input())
\* every step leaves the conversation as it was or appends to it: the messages already
\* there stay, in their places and unmodified.
C24_ConversationAppendOnly ==
    [][cpc # "input" =>
          /\ Len(messages') >= Len(messages)
          /\ SubSeq(messages', 1, Len(messages)) = messages
      ]_clientVars

\* C24 witness: the conversation has grown to the user message, the assistant message
\* and two tool results, and the second completion is requested with it.
C24_Witness ==
    /\ cpc = "completion2"
    /\ Len(messages) = 4
    /\ messages[1] = UserMessage(query)
    /\ messages[4].role = "tool"
    /\ llmLog[2].messages = messages

\* Every entry of the list carries a lesson date.
AllDated(list) == \A k \in 1 .. Len(list) : list[k].lesson_date # 0

\* How often a lesson occurs in a list, and how often its block occurs in a report.
Occurrences(lesson, list) == Cardinality({ k \in 1 .. Len(list) : list[k] = lesson })
Blocks(lesson, lines) ==
    Cardinality({ k \in 1 .. Len(lines) : lines[k] = LessonLine(lesson) })

\* The day headings of a report come in strictly ascending date order, every lesson
\* block stands in the section of its own day, and no section is empty.
DaySectionsAscending(lines) ==
    /\ \A i \in 1 .. Len(lines), j \in 1 .. Len(lines) :
          (i < j /\ lines[i].kind = "day" /\ lines[j].kind = "day") =>
              lines[i].day < lines[j].day
    /\ \A j \in 1 .. Len(lines) :
          lines[j].kind = "lesson" =>
              /\ j > 1
              /\ lines[j - 1].kind \in {"day", "lesson"}
              /\ lines[j - 1].day = lines[j].day
    /\ \A j \in 1 .. Len(lines) :
          lines[j].kind = "day" => (j < Len(lines) /\ lines[j + 1].kind = "lesson")

\* Two lesson blocks follow each other inside one day section.
AdjacentLessons(lines, j) ==
    j < Len(lines) /\ lines[j].kind = "lesson" /\ lines[j + 1].kind = "lesson"

\* C25 as claimed: for every payload whose entries all carry a lesson date, the day
\* sections are in ascending date order and within each day the lessons are in
\* ascending lesson-period code order.
C25_Original ==
    [][(report = << >> /\ report' # << >> /\ payload # << >> /\ AllDated(payload)) =>
          /\ DaySectionsAscending(report')
          /\ \A j \in 1 .. Len(report') :
                AdjacentLessons(report', j) =>
                    ~StrLess(report'[j + 1].lesson.code, report'[j].lesson.code)
      ]_scheduleVars

\* C25 amended: for every payload whose entries all carry a lesson date, every entry
\* has its block in the report exactly once, the day sections are in ascending date
\* order, and within each day the lessons are in ascending order of (lesson_date
\* timestamp, lesson-period code), codes compared as strings: in ascending code order
\* among the lessons of one timestamp.
C25_ScheduleOrder ==
    [][(report = << >> /\ report' # << >> /\ payload # << >> /\ AllDated(payload)) =>
          /\ \A lesson \in Lessons :
                Blocks(lesson, report') = Occurrences(lesson, payload)
          /\ DaySectionsAscending(report')
          /\ \A j \in 1 .. Len(report') :
                AdjacentLessons(report', j) =>
                    LET a == report'[j].lesson
                        b == report'[j + 1].lesson IN
                    \/ a.lesson_date < b.lesson_date
                    \/ a.lesson_date = b.lesson_date /\ ~StrLess(b.code, a.code)
      ]_scheduleVars

\* C25 witness: a payload of three dated entries that arrived out of order is reported
\* in two day sections, the later day holding period "10" before period "2" of the
\* same timestamp.
C25_Witness ==
    /\ Len(payload) = MaxLessons
    /\ AllDated(payload)
    /\ schedule # payload
    /\ Len(report) = 6
    /\ report[2].kind = "day"
    /\ report[3].kind = "lesson"
    /\ report[4].kind = "day"
    /\ report[5].lesson.code = << 1, 0 >>
    /\ report[6].lesson.code = << 2 >>
    /\ report[5].lesson.lesson_date = report[6].lesson.lesson_date

\* A token is stored in memory and in the durable record, and both have expired.
ExpiredTokenStored ==
    /\ _cached_token \in Tokens
    /\ ~MemUnexpired
    /\ tokenFile.state = "record"
    /\ tokenFile.token \in Tokens
    /\ ~FileUnexpired

\* C26: a failed login attempt leaves the token cache as it was.  A login POST that
\* ends in a network error, a non-success status, an undecodable body or a false
\* success indicator changes neither the memory slot nor the durable record, whatever
\* they hold, and the tool returns the authentication error; so does an attempt that
\* stops at the missing credentials.  An expired token therefore stays stored, and a
\* protected invocation that finds only expired tokens puts none of them on a GET.
C26_FailedLoginKeepsCache ==
    [][\A c \in Callers :
        /\ LoginCompletes(c) =>
             \A http \in LoginOutcomes :
                (LoginFailed(http) /\ LoginResponse(c, http, "ok")) =>
                    /\ UNCHANGED cacheVars
                    /\ call'[c] = Done(call[c].tool, Text(AuthError))
        /\ (StartsProtected(c) /\ CredentialsMissing /\ call'[c].pc = "done") =>
             \A rd \in ReadOutcomes :
                InvokeProtected(c, call'[c].tool, rd) =>
                    /\ UNCHANGED cacheVars
                    /\ call'[c] = Done(call'[c].tool, Text(AuthError))
        /\ (StartsProtected(c) /\ ExpiredTokenStored) =>
             \A rd \in ReadOutcomes :
                InvokeProtected(c, call'[c].tool, rd) =>
                    /\ UNCHANGED cacheVars
                    /\ call'[c].pc # "get"
      ]_vars

\* C26 witness: with credentials configured a caller got the authentication error (its
\* login POST failed) while the expired token of an earlier login is still stored in
\* memory and in the durable record.
C26_Witness ==
    \E c \in Callers :
        /\ ~CredentialsMissing
        /\ call[c] = Done(call[c].tool, Text(AuthError))
        /\ ExpiredTokenStored
        /\ tokenFile = FileRecord(_cached_token, _token_expiry)

\* A step in which caller c's protected tool obtains a token and issues its GET.
ReceivesToken(c) ==
    /\ call[c].pc # "get"
    /\ call'[c].pc = "get"
    /\ call'[c].tool \in ProtectedTools

\* C27: reading and adopting a token never extends its lifetime.  Every expiry stored
\* (memory, durable record) lies at most 7 days ahead; the memory pair (token, expiry)
\* changes only by the save of a login (expiry = time of the login + 7 days), by
\* adopting the durable pair as it is, or by a restart that clears it; the durable
\* record changes only by the save of a login; and a token is handed to a tool only
\* with its stored expiry still ahead, so less than 7 days after its login.
C27_LifetimeNeverExtended ==
    [][/\ IsIso(_token_expiry') /\ _token_expiry' # NoIso =>
             FromIsoFormat(_token_expiry') <= now' + TokenLifetimeDays
       /\ tokenFile'.state = "record" =>
             FromIsoFormat(tokenFile'.expiry) <= now' + TokenLifetimeDays
       /\ <<_cached_token, _token_expiry>>' # <<_cached_token, _token_expiry>> =>
             \/ /\ \E c \in Callers : LoginCompletes(c)
                /\ _cached_token' \in Tokens
                /\ FromIsoFormat(_token_expiry') = now + TokenLifetimeDays
             \/ /\ \E c \in Callers : StartsProtected(c) /\ call'[c] # call[c]
                /\ tokenFile.state = "record"
                /\ _cached_token' = tokenFile.token
                /\ _token_expiry' = tokenFile.expiry
                /\ tokenFile' = tokenFile
             \/ /\ _cached_token' = None
                /\ _token_expiry' = NoIso
                /\ \A c \in Callers : call'[c] = Idle
       /\ tokenFile' # tokenFile =>
             /\ \E c \in Callers : LoginCompletes(c)
             /\ tokenFile'.state = "record" =>
                   /\ tokenFile' = FileRecord(_cached_token', _token_expiry')
                   /\ FromIsoFormat(tokenFile'.expiry) = now + TokenLifetimeDays
       /\ \A c \in Callers :
             ReceivesToken(c) =>
                /\ call'[c].request.bearer = _cached_token'
                /\ now < FromIsoFormat(_token_expiry')
                /\ FromIsoFormat(_token_expiry') <= now + TokenLifetimeDays
      ]_vars

\* C27 witness: after a restart the token of an earlier login was adopted from the
\* durable record days after that login and is on a GET, in memory with the expiry the
\* login gave it.
C27_Witness ==
    \E c \in Callers :
        /\ call[c].pc = "get"
        /\ call[c].request.bearer = _cached_token
        /\ CredentialsMissing
        /\ tokenFile = FileRecord(_cached_token, _token_expiry)
        /\ now >= 2
        /\ FromIsoFormat(_token_expiry) = TokenLifetimeDays

C29_SaveIsAtomic ==
    [][/\ _cached_token' # None =>
             tokenFile' = FileRecord(_cached_token', _token_expiry')
       /\ _cached_token' = None => _token_expiry' = NoIso
       /\ \A c \in Callers :
            /\ LoginCompletes(c) =>
                 \A http \in LoginOutcomes :
                    (LoginSucceeded(http) /\ LoginResponse(c, http, "ok")) =>
                        /\ _cached_token' = http.body.token
                        /\ FromIsoFormat(_token_expiry') = now + TokenLifetimeDays
                        /\ tokenFile' = FileRecord(http.body.token, _token_expiry')
                        /\ call'[c].request.bearer = http.body.token
            /\ ReceivesToken(c) =>
                 Unexpired(call'[c].request.bearer, _token_expiry', now)
      ]_vars

\* C29 witness: two logins ran concurrently; each caller is on its GET with the token
\* of its own login, and memory and the durable record both hold the pair of the login
\* that was saved last.
C29_Witness ==
    \E c \in Callers, d \in Callers :
        /\ now = 0
        /\ call[c].pc = "get"
        /\ call[d].pc = "get"
        /\ call[c].request.bearer \in Tokens
        /\ call[d].request.bearer \in Tokens
        /\ call[c].request.bearer # call[d].request.bearer
        /\ call[d].request.bearer = _cached_token
        /\ tokenFile = FileRecord(_cached_token, _token_expiry)

\* C30: every process_query starts from a fresh conversation.  Whatever the earlier
\* query left behind (its messages, a round aborted half-way), the step that starts a
\* query makes the conversation the one user message with the new query, and the first
\* completion is requested with exactly that message.
C30_FreshConversation ==
    [][/\ (cpc = "input" /\ cpc' = "list_tools") =>
             messages' = << UserMessage(query') >>
       /\ (cpc = "list_tools" /\ cpc' = "completion1") =>
             /\ messages' = << UserMessage(query) >>
             /\ llmLog' = << LlmRequest(<< UserMessage(query) >>, ToolNames) >>
      ]_clientVars

\* C30 witness: the first completion of a query is requested with the one-message
\* conversation, the query as read and stripped.
C30_Witness ==
    /\ cpc = "completion1"
    /\ query = << "H", "i" >>
    /\ llmLog = << LlmRequest(<< UserMessage(query) >>, ToolNames) >>
    /\ messages = << UserMessage(<< "H", "i" >>) >>

====
